---- MODULE Spec2Model ----
(***************************************************************************)
(* Fleet controller of High-Power/high-power.py: the start-up loop, the    *)
(* per-worker threads (start, stop, outputHandler), the shutdown thread    *)
(* and its checkServerState timers.  Time is explicit: every time.sleep(d) *)
(* and threading.Timer(d, f) becomes a deadline now + d; a thread that is  *)
(* awake runs at once, and time advances, and the worker processes print   *)
(* or end, only when no thread is runnable.                                *)
(***************************************************************************)
EXTENDS Integers, Sequences, FiniteSets, TLC

\* ---------------------------------------------------------------- bounds
NumWorkers == 2        \* server_count of the modelled fleet
MaxLines == 2          \* output lines printed by all worker processes in a run
MaxTrackLines == 4     \* the same, in the runs that only feed the output loops
MaxTime == 720         \* horizon of the clock, in seconds
MaxStoreLines == 2     \* output lines in the runs that follow the writes to server.yml
MaxWakeLines == 3      \* output lines read by the proxy's output loops in a run
MaxWakeTime == 1000    \* horizon of the proxy's clock, in seconds
MaxRelayLines == 3     \* output lines relayed on the connection the handler serves

\* ------------------------------------------------------ program constants
StartGrace == 300      \* stop(): time.sleep(300)
StopPollInterval == 16 \* stop(): time.sleep(16)
OutputDelay == 1       \* outputHandler(): time.sleep(1)
SpawnDelay == 1        \* start-up loop: time.sleep(1)
SettleDelay == 300     \* shutdown(): time.sleep(300) after the reset
PollInterval == 4      \* shutdown(): time.sleep(4)
FirstTimerDelay == 16  \* threading.Timer(16, checkServerState)
SecondTimerDelay == 900 \* threading.Timer(900, checkServerState)
\* variant: the power-off waits only for the polling interval
DrainDelay_short == PollInterval
DrainDelay == 300      \* shutdown(): time.sleep(300) before the power-off

WakePollInterval == 16 \* startHighPower(): time.sleep(16)
CooldownDelay == 900   \* startHighPower(): time.sleep(900)

server_count == NumWorkers
Workers == 0 .. (server_count - 1)

\* An output line is abstracted to which of the two markers it contains.
Designated == 1        \* startHighPower(): server_data['server_1']

Lines == {"join", "leave", "both", "other"}

VARIABLES
    now,                \* the clock
    server_data,        \* the in-memory document loaded from server.yml
    stored,             \* the content of server.yml
    server_used,        \* module-level server_used
    local_server_used,  \* the variable server_used of the last checkServerState call
    g_cfg,              \* index of the worker whose server_path/jar_name/max_ram are in the globals
    m_pc, m_i, m_due,   \* start-up loop of the main thread
    c_pc, c_due,        \* shutdown thread
    first_thread_active,\* local of shutdown()
    timers,             \* pending threading.Timer objects
    finished,           \* kinds of the timers whose checkServerState has returned
    proc,               \* self.server: "none" is the placeholder 0
    sock,               \* self.serversock
    st_pc,              \* thread running MCServer.start
    sp_pc, sp_due,      \* thread running MCServer.stop
    o_pc, o_due,        \* thread running MCServer.outputHandler
    player_count,       \* local of outputHandler
    log,                \* the lines outputHandler has read, in order
    stop_sent,          \* number of stop directives written to the process
    lines_left,         \* output lines the worker processes will still print
    flag_rises,         \* number of changes of server_data['shutdown'] from false to true
    powered_off,        \* os.system("shutdown /s /t 1") has been issued
    o_buf,              \* outputHandler: the document written to fp, not yet flushed
    c_buf,              \* shutdown(): the document written to fp, not yet flushed
    px_pc,              \* proxy, per worker: position of the outputHandler thread
    px_count,           \* proxy, per worker: player_count of outputHandler
    px_active,          \* proxy: server_data[server_id]['player_active']
    px_rises,           \* proxy, per worker: changes of player_active from False to True
    hp_pc,              \* proxy: position of the startHighPower thread
    hp_due,             \* proxy: end of the sleep of startHighPower
    wakes,              \* proxy: magic packets sent
    last_wake,          \* proxy: instant of the latest magic packet, -1 before the first
    cooldowns,          \* proxy: completed time.sleep(900) of startHighPower
    relay,              \* per worker: the frames sent on serversock, in order
    swallowed,          \* per worker: output lines read by communicate()
    r_conn,             \* the relay connection served by handle(): none, open, closed
    wire,               \* what was sent on it and handle() has not received yet
    h_pc,               \* proxy: position of handle(): name, read, done
    h_name,             \* proxy: the text output_file_name was made of
    h_file              \* proxy: the entries handle() wrote to the output file

vars == << now, server_data, stored, server_used, local_server_used, g_cfg,
           m_pc, m_i, m_due, c_pc, c_due, first_thread_active, timers, finished,
           proc, sock, st_pc, sp_pc, sp_due, o_pc, o_due,
           player_count, log, stop_sent, lines_left, flag_rises, powered_off,
           o_buf, c_buf, px_pc, px_count, px_active, px_rises, hp_pc, hp_due, wakes,
           last_wake, cooldowns, relay, swallowed, r_conn, wire, h_pc, h_name, h_file >>

\* ------------------------------------------------------------ pure parts

HasJoin(line) == line \in {"join", "both"}      \* 'logged in with entity id' in output
HasLeave(line) == line \in {"leave", "both"}    \* 'left the game' in output

\* variant: the leave test is an elif of the join test
CountAfter_elif(count, line) ==
    IF HasJoin(line) THEN count + 1
    ELSE IF HasLeave(line) THEN count - 1 ELSE count

\* lines 111-114: the two tests are independent ifs
CountAfter(count, line) ==
    LET c1 == IF HasJoin(line) THEN count + 1 ELSE count
    IN  IF HasLeave(line) THEN c1 - 1 ELSE c1

\* variant: the test is player_count > 0
Truthy_positive(count) == count > 0

\* line 117: if player_count:
Truthy(count) == count # 0

RECURSIVE CheckLoop(_, _, _)
\* lines 143-156: the for loop of checkServerState, from index i with the
\* current value of its variable server_used
CheckLoop(i, sd, used) ==
    IF i >= server_count THEN used
    ELSE IF sd.player_active[i] THEN TRUE
         ELSE CheckLoop(i + 1, sd, FALSE)

\* yaml.dump(server_data, fp) on a freshly truncated server.yml
Dump(sd) == sd

\* variant: server.yml is opened for appending, the old text is kept
Overwrite_append(old, doc) == [before |-> old, doc |-> doc]

\* open(server_data_path, 'w') and the write of the dumped text: the file is
\* truncated, so it holds the new text and nothing of the old one
Overwrite(old, doc) == doc

\* line 59: bytes(server_name, 'utf-8'), sent without a newline
NameFrame == [text |-> "server_name", nl |-> FALSE]

\* lines 104-108: bytes(output + '\n', 'utf-8') for the line read
LineFrame(line) == [text |-> line, nl |-> TRUE]

Rise(old, new) == IF ~old /\ new THEN 1 ELSE 0

SetMin(S) == CHOOSE x \in S : \A y \in S : x <= y

\* ---------------------------------------------------------------- Init

\* no with-block on server.yml is open; the proxy has started its threads
AuxInit ==
    /\ o_buf = [w \in Workers |-> {}]
    /\ c_buf = {}
    /\ px_pc = [w \in Workers |-> "sleep"]
    /\ px_count = [w \in Workers |-> 0]
    /\ px_active = [w \in Workers |-> FALSE]
    /\ px_rises = [w \in Workers |-> 0]
    /\ hp_pc = "poll" /\ hp_due = WakePollInterval
    /\ wakes = 0 /\ last_wake = 0 - 1 /\ cooldowns = 0
    /\ swallowed = [w \in Workers |-> 0]
    /\ r_conn = "none" /\ wire = << >>
    /\ h_pc = "name" /\ h_name = << >> /\ h_file = << >>

\* the state after the start of the program, whatever lines will be printed
InitProgram ==
    /\ AuxInit
    /\ now = 0
    /\ \E flag \in BOOLEAN :
          server_data = [shutdown |-> flag, player_active |-> [w \in Workers |-> FALSE]]
    /\ stored = server_data
    /\ server_used = FALSE
    /\ local_server_used = "unset"
    /\ g_cfg = -1
    /\ m_pc = "configure" /\ m_i = 0 /\ m_due = 0
    /\ c_pc = "unborn" /\ c_due = 0
    /\ first_thread_active = FALSE
    /\ timers = {}
    /\ finished = {}
    /\ proc = [w \in Workers |-> "none"]
    /\ sock = [w \in Workers |-> "none"]
    /\ relay = [w \in Workers |-> << >>]
    /\ st_pc = [w \in Workers |-> "unborn"]
    /\ sp_pc = [w \in Workers |-> "unborn"]
    /\ sp_due = [w \in Workers |-> 0]
    /\ o_pc = [w \in Workers |-> "unborn"]
    /\ o_due = [w \in Workers |-> 0]
    /\ player_count = [w \in Workers |-> 0]
    /\ log = [w \in Workers |-> << >>]
    /\ stop_sent = [w \in Workers |-> 0]
    /\ flag_rises = 0
    /\ powered_off = FALSE

Init ==
    /\ InitProgram
    /\ lines_left = MaxLines

\* ------------------------------------------------------- variable groups

mainv == << m_pc, m_i, m_due, g_cfg >>
coordv == << c_pc, c_due, first_thread_active >>
timerv == << timers, finished, server_used, local_server_used >>
datav == << server_data, stored, flag_rises >>
procv == << proc, stop_sent >>
stopv == << sp_pc, sp_due >>
outv == << o_pc, o_due, player_count, log, lines_left >>
storev == << o_buf, c_buf >>
proxyv == << px_pc, px_count, px_active, px_rises >>
wakev == << hp_pc, hp_due, wakes, last_wake, cooldowns >>
relayv == << relay, swallowed >>
collv == << r_conn, wire, h_pc, h_name, h_file >>
otherv == << storev, proxyv, wakev, collv >>
auxv == << otherv, relayv >>

\* ------------------------------------------- main thread: start-up loop

\* lines 210-223: one iteration up to and including time.sleep(1); the
\* constructor connects the relay socket and sends the display name
MainConfigure ==
    /\ ~powered_off
    /\ m_pc = "configure"
    /\ g_cfg' = m_i
    /\ sock' = [sock EXCEPT ![m_i] = "open"]
    /\ relay' = [relay EXCEPT ![m_i] = << NameFrame >>]
    /\ m_pc' = "spawn"
    /\ m_due' = now + SpawnDelay
    /\ UNCHANGED << now, m_i, coordv, timerv, datav, procv, st_pc, stopv, outv, powered_off >>
    /\ UNCHANGED << otherv, swallowed >>

\* lines 225-228: the threads of worker m_i are started; the loop goes on
MainSpawn ==
    /\ ~powered_off
    /\ m_pc = "spawn"
    /\ now >= m_due
    /\ st_pc' = [st_pc EXCEPT ![m_i] = "ready"]
    /\ sp_pc' = [sp_pc EXCEPT ![m_i] = "grace"]
    /\ sp_due' = [sp_due EXCEPT ![m_i] = now + StartGrace]
    /\ o_pc' = [o_pc EXCEPT ![m_i] = "sleep"]
    /\ o_due' = [o_due EXCEPT ![m_i] = now + OutputDelay]
    /\ m_i' = m_i + 1
    /\ m_pc' = IF m_i + 1 < server_count THEN "configure" ELSE "start_shutdown"
    /\ UNCHANGED << now, m_due, g_cfg, coordv, timerv, datav, procv, sock,
                    player_count, log, lines_left, powered_off >>
    /\ UNCHANGED auxv

\* line 230: threading.Thread(target=shutdown).start()
MainStartShutdown ==
    /\ ~powered_off
    /\ m_pc = "start_shutdown"
    /\ m_pc' = "done"
    /\ c_pc' = "start"
    /\ UNCHANGED << now, m_i, m_due, g_cfg, c_due, first_thread_active, timerv, datav,
                    procv, sock, st_pc, stopv, outv, powered_off >>
    /\ UNCHANGED auxv

\* lines 57-58: the connection to the proxy cannot be opened; the exception
\* leaves the constructor and ends the main thread
MainConnectFail ==
    /\ ~powered_off
    /\ m_pc = "configure"
    /\ g_cfg' = m_i
    /\ m_pc' = "crashed"
    /\ UNCHANGED << now, m_i, m_due, coordv, timerv, datav, procv, sock, st_pc, stopv,
                    outv, powered_off >>
    /\ UNCHANGED auxv

\* ------------------------------------------------------ shutdown thread

\* lines 159-167: reset of the flag, dump, time.sleep(300)
ShutdownReset ==
    /\ ~powered_off
    /\ c_pc = "start"
    /\ first_thread_active' = FALSE
    /\ server_data' = [server_data EXCEPT !.shutdown = FALSE]
    /\ stored' = Overwrite(stored, Dump(server_data'))
    /\ flag_rises' = flag_rises + Rise(server_data.shutdown, server_data'.shutdown)
    /\ c_pc' = "settle"
    /\ c_due' = now + SettleDelay
    /\ UNCHANGED << now, mainv, timerv, procv, sock, st_pc, stopv, outv, powered_off >>
    /\ UNCHANGED auxv

\* lines 169-172: both loops are entered, time.sleep(4)
ShutdownSettled ==
    /\ ~powered_off
    /\ c_pc = "settle"
    /\ now >= c_due
    /\ c_pc' = "poll"
    /\ c_due' = now + PollInterval
    /\ UNCHANGED << now, mainv, first_thread_active, timerv, datav, procv, sock, st_pc,
                    stopv, outv, powered_off >>
    /\ UNCHANGED auxv

\* lines 174-184 and the time.sleep(4) of the next inner iteration
ShutdownPoll ==
    /\ ~powered_off
    /\ c_pc = "poll"
    /\ now >= c_due
    /\ timers' = IF ~first_thread_active
                 THEN timers \cup {[kind |-> "first", due |-> now + FirstTimerDelay]}
                 ELSE timers
    /\ IF ~server_used
       THEN /\ c_pc' = "confirm2"
            /\ UNCHANGED << c_due, first_thread_active >>
       ELSE /\ first_thread_active' = (\E t \in timers' : t.kind = "first")
            /\ c_pc' = "poll"
            /\ c_due' = now + PollInterval
    /\ UNCHANGED << now, mainv, finished, server_used, local_server_used, datav, procv,
                    sock, st_pc, stopv, outv, powered_off >>
    /\ UNCHANGED auxv

\* variant: the test after the second timer is inverted
ShutdownSecondCheck_inverted ==
    /\ ~powered_off
    /\ c_pc = "confirm2"
    /\ timers' = timers \cup {[kind |-> "second", due |-> now + SecondTimerDelay]}
    /\ IF server_used
       THEN /\ c_pc' = "commit"
            /\ UNCHANGED c_due
       ELSE /\ c_pc' = "poll"
            /\ c_due' = now + PollInterval
    /\ UNCHANGED << now, mainv, first_thread_active, finished, server_used,
                    local_server_used, datav, procv, sock, st_pc, stopv, outv, powered_off >>
    /\ UNCHANGED auxv

\* lines 186-192: the second timer is started and server_used is read at once
ShutdownSecondCheck ==
    /\ ~powered_off
    /\ c_pc = "confirm2"
    /\ timers' = timers \cup {[kind |-> "second", due |-> now + SecondTimerDelay]}
    /\ IF ~server_used
       THEN /\ c_pc' = "commit"
            /\ UNCHANGED c_due
       ELSE /\ c_pc' = "poll"
            /\ c_due' = now + PollInterval
    /\ UNCHANGED << now, mainv, first_thread_active, finished, server_used,
                    local_server_used, datav, procv, sock, st_pc, stopv, outv, powered_off >>
    /\ UNCHANGED auxv

\* lines 194-200: the flag is set and dumped, time.sleep(300)
ShutdownCommit ==
    /\ ~powered_off
    /\ c_pc = "commit"
    /\ server_data' = [server_data EXCEPT !.shutdown = TRUE]
    /\ stored' = Overwrite(stored, Dump(server_data'))
    /\ flag_rises' = flag_rises + Rise(server_data.shutdown, server_data'.shutdown)
    /\ c_pc' = "drain"
    /\ c_due' = now + DrainDelay
    /\ UNCHANGED << now, mainv, first_thread_active, timerv, procv, sock, st_pc, stopv,
                    outv, powered_off >>
    /\ UNCHANGED auxv

\* line 203: os.system("shutdown /s /t 1")
ShutdownPowerOff ==
    /\ ~powered_off
    /\ c_pc = "drain"
    /\ now >= c_due
    /\ powered_off' = TRUE
    /\ c_pc' = "done"
    /\ UNCHANGED << now, mainv, c_due, first_thread_active, timerv, datav, procv, sock,
                    st_pc, stopv, outv >>
    /\ UNCHANGED auxv

\* lines 141-156, run by a timer thread whose delay has passed: server_used
\* is assigned without a global declaration, so the assignment binds a local
\* variable of the call and the module-level server_used keeps its value
checkServerState ==
    /\ ~powered_off
    /\ \E t \in timers :
          /\ now >= t.due
          /\ timers' = timers \ {t}
          /\ finished' = finished \cup {t.kind}
    /\ local_server_used' = IF CheckLoop(0, server_data, FALSE) THEN "True" ELSE "False"
    /\ UNCHANGED << now, mainv, coordv, server_used, datav, procv, sock, st_pc, stopv,
                    outv, powered_off >>
    /\ UNCHANGED auxv

\* ----------------------------------------------------------- scheduling

\* some thread can take a step at the current instant
Runnable ==
    \/ m_pc \in {"configure", "start_shutdown"}
    \/ m_pc = "spawn" /\ now >= m_due
    \/ c_pc \in {"start", "confirm2", "commit"}
    \/ c_pc \in {"settle", "poll", "drain"} /\ now >= c_due
    \/ \E t \in timers : now >= t.due
    \/ \E w \in Workers :
          \/ st_pc[w] = "ready"
          \/ sp_pc[w] \in {"grace", "poll"} /\ now >= sp_due[w]
          \/ sp_pc[w] = "communicate" /\ proc[w] = "exited"
          \/ o_pc[w] = "sleep" /\ now >= o_due[w]
          \/ o_pc[w] = "loop" /\ proc[w] = "exited"

\* ------------------------------------------------------- worker threads

\* lines 61-70: Popen with the module-level max_ram, jar_name, server_path
Start(w) ==
    /\ ~powered_off
    /\ st_pc[w] = "ready"
    /\ proc' = [proc EXCEPT ![w] = "running"]
    /\ st_pc' = [st_pc EXCEPT ![w] = "done"]
    /\ UNCHANGED << now, mainv, coordv, timerv, datav, stop_sent, sock, stopv, outv,
                    powered_off >>
    /\ UNCHANGED auxv

\* lines 61-70: Popen raises (server_path is not a directory): the start
\* thread ends with the exception and self.server keeps the placeholder 0
StartFail(w) ==
    /\ ~powered_off
    /\ st_pc[w] = "ready"
    /\ st_pc' = [st_pc EXCEPT ![w] = "failed"]
    /\ UNCHANGED << now, mainv, coordv, timerv, datav, procv, sock, stopv, outv,
                    powered_off >>
    /\ UNCHANGED auxv

\* lines 73-78: the grace delay is over, the first time.sleep(16) begins
StopGrace(w) ==
    /\ ~powered_off
    /\ sp_pc[w] = "grace"
    /\ now >= sp_due[w]
    /\ sp_pc' = [sp_pc EXCEPT ![w] = "poll"]
    /\ sp_due' = [sp_due EXCEPT ![w] = now + StopPollInterval]
    /\ UNCHANGED << now, mainv, coordv, timerv, datav, procv, sock, st_pc, outv,
                    powered_off >>
    /\ UNCHANGED auxv

\* variant: the watch sends the stop directive and goes on polling
StopPoll_noexit(w) ==
    /\ ~powered_off
    /\ sp_pc[w] = "poll"
    /\ now >= sp_due[w]
    /\ IF server_data.shutdown
       THEN /\ server_data' = [server_data EXCEPT !.player_active[w] = FALSE]
            /\ stored' = Overwrite(stored, Dump(server_data'))
            /\ stop_sent' = [stop_sent EXCEPT ![w] = @ + 1]
            /\ proc' = [proc EXCEPT ![w] = IF @ = "running" THEN "stopping" ELSE @]
       ELSE UNCHANGED << server_data, stored, proc, stop_sent >>
    /\ sp_due' = [sp_due EXCEPT ![w] = now + StopPollInterval]
    /\ UNCHANGED << now, mainv, coordv, timerv, flag_rises, sock, st_pc,
                    sp_pc, outv, powered_off >>
    /\ UNCHANGED auxv

\* lines 80-91: one poll of the flag; on true the state is reset and dumped
\* and communicate(b'stop\n') writes the stop directive, which raises on the
\* placeholder 0
StopPoll(w) ==
    /\ ~powered_off
    /\ sp_pc[w] = "poll"
    /\ now >= sp_due[w]
    /\ IF server_data.shutdown
       THEN /\ server_data' = [server_data EXCEPT !.player_active[w] = FALSE]
            /\ stored' = Overwrite(stored, Dump(server_data'))
            /\ IF proc[w] = "none"
               THEN /\ sp_pc' = [sp_pc EXCEPT ![w] = "exited"]
                    /\ UNCHANGED << proc, stop_sent >>
               ELSE /\ sp_pc' = [sp_pc EXCEPT ![w] = "communicate"]
                    /\ stop_sent' = [stop_sent EXCEPT ![w] = @ + 1]
                    /\ proc' = [proc EXCEPT ![w] = IF @ = "running" THEN "stopping" ELSE @]
            /\ UNCHANGED sp_due
       ELSE /\ sp_due' = [sp_due EXCEPT ![w] = now + StopPollInterval]
            /\ UNCHANGED << server_data, stored, sp_pc, proc, stop_sent >>
    /\ UNCHANGED << now, mainv, coordv, timerv, flag_rises, sock, st_pc,
                    outv, powered_off >>
    /\ UNCHANGED auxv

\* lines 91-93: communicate returns when the process has ended; the socket
\* is closed and the thread exits
StopFinish(w) ==
    /\ ~powered_off
    /\ sp_pc[w] = "communicate"
    /\ proc[w] = "exited"
    /\ sock' = [sock EXCEPT ![w] = "closed"]
    /\ sp_pc' = [sp_pc EXCEPT ![w] = "exited"]
    /\ UNCHANGED << now, mainv, coordv, timerv, datav, procv, st_pc, sp_due, outv,
                    powered_off >>
    /\ UNCHANGED auxv

\* lines 96-101: after time.sleep(1), player_count = 0 and the stream of the
\* process is taken; on the placeholder 0 the exception ends the thread
OutputBegin(w) ==
    /\ ~powered_off
    /\ o_pc[w] = "sleep"
    /\ now >= o_due[w]
    /\ player_count' = [player_count EXCEPT ![w] = 0]
    /\ o_pc' = [o_pc EXCEPT ![w] = IF proc[w] = "none" THEN "ended" ELSE "loop"]
    /\ UNCHANGED << now, mainv, coordv, timerv, datav, procv, sock, st_pc, stopv, o_due,
                    log, lines_left, powered_off >>
    /\ UNCHANGED auxv

\* lines 102-124: one iteration of the loop on a line the process printed:
\* relay, count, store.  The process prints between the instants at which
\* the sleeping threads wake up.
OutputLine(w, line) ==
    /\ ~powered_off
    /\ ~Runnable
    /\ o_pc[w] = "loop"
    /\ proc[w] \in {"running", "stopping"}
    /\ lines_left > 0
    /\ lines_left' = lines_left - 1
    /\ log' = [log EXCEPT ![w] = Append(@, line)]
    /\ IF sock[w] # "open"
       THEN /\ o_pc' = [o_pc EXCEPT ![w] = "ended"]
            /\ UNCHANGED << player_count, server_data, stored, relay >>
       ELSE /\ relay' = [relay EXCEPT ![w] = Append(@, LineFrame(line))]
            /\ player_count' = [player_count EXCEPT ![w] = CountAfter(@, line)]
            /\ server_data' = [server_data EXCEPT
                                  !.player_active[w] = Truthy(player_count'[w])]
            /\ stored' = Overwrite(stored, Dump(server_data'))
            /\ UNCHANGED o_pc
    /\ UNCHANGED << now, mainv, coordv, timerv, flag_rises, procv, sock, st_pc, stopv,
                    o_due, powered_off >>
    /\ UNCHANGED << otherv, swallowed >>

\* line 102: the stream has ended, the loop is left
OutputEnd(w) ==
    /\ ~powered_off
    /\ o_pc[w] = "loop"
    /\ proc[w] = "exited"
    /\ o_pc' = [o_pc EXCEPT ![w] = "ended"]
    /\ UNCHANGED << now, mainv, coordv, timerv, datav, procv, sock, st_pc, stopv, o_due,
                    player_count, log, lines_left, powered_off >>
    /\ UNCHANGED auxv

\* line 91: communicate() also reads stdout until the process ends, on the
\* file object the output loop iterates over; a line the process prints
\* while it is stopping may be taken by communicate(), which discards it
SwallowLine(w) ==
    /\ ~powered_off
    /\ ~Runnable
    /\ sp_pc[w] = "communicate"
    /\ proc[w] = "stopping"
    /\ lines_left > 0
    /\ lines_left' = lines_left - 1
    /\ swallowed' = [swallowed EXCEPT ![w] = @ + 1]
    /\ UNCHANGED << now, mainv, coordv, timerv, datav, procv, sock, st_pc, stopv, o_pc,
                    o_due, player_count, log, powered_off, otherv, relay >>

\* the worker process ends some time after it has received the stop directive
ProcessExit(w) ==
    /\ ~powered_off
    /\ ~Runnable
    /\ proc[w] = "stopping"
    /\ proc' = [proc EXCEPT ![w] = "exited"]
    /\ UNCHANGED << now, mainv, coordv, timerv, datav, stop_sent, sock,
                    st_pc, stopv, outv, powered_off >>
    /\ UNCHANGED auxv

\* ----------------------------------------------------------------- time

\* the deadlines of the sleeping threads and the pending timers
Deadlines ==
    (IF m_pc = "spawn" THEN {m_due} ELSE {})
    \cup (IF c_pc \in {"settle", "poll", "drain"} THEN {c_due} ELSE {})
    \cup {t.due : t \in timers}
    \cup {sp_due[w] : w \in {v \in Workers : sp_pc[v] \in {"grace", "poll"}}}
    \cup {o_due[w] : w \in {v \in Workers : o_pc[v] = "sleep"}}

\* time passes up to the next deadline
Tick ==
    /\ ~powered_off
    /\ ~Runnable
    /\ Deadlines # {}
    /\ SetMin(Deadlines) <= MaxTime
    /\ now' = SetMin(Deadlines)
    /\ UNCHANGED << mainv, coordv, timerv, datav, procv, sock, st_pc, stopv, outv,
                    powered_off >>
    /\ UNCHANGED auxv

\* ------------------------------------------------------- specifications

Next ==
    \/ MainConfigure
    \/ MainSpawn
    \/ MainStartShutdown
    \/ ShutdownReset
    \/ ShutdownSettled
    \/ ShutdownPoll
    \/ ShutdownSecondCheck
    \/ ShutdownCommit
    \/ ShutdownPowerOff
    \/ checkServerState
    \/ \E w \in Workers : Start(w)
    \/ \E w \in Workers : StopGrace(w)
    \/ \E w \in Workers : StopPoll(w)
    \/ \E w \in Workers : StopFinish(w)
    \/ \E w \in Workers : OutputBegin(w)
    \/ \E w \in Workers, line \in Lines : OutputLine(w, line)
    \/ \E w \in Workers : OutputEnd(w)
    \/ \E w \in Workers : ProcessExit(w)
    \/ Tick

Spec == Init /\ [][Next]_vars

\* the runs in which communicate() takes lines of the output.  For the output
\* loops a line taken by communicate() is a line that was never printed, so
\* Spec shows the same runs of every thread; only the relay stream differs
\* from the output of the process.
NextSwallow ==
    \/ Next
    \/ \E w \in Workers : SwallowLine(w)

SpecSwallow == Init /\ [][NextSwallow]_vars

\* the runs in which the relay connection of a worker may fail to open and
\* the launch of a worker process may fail
NextFault ==
    \/ Next
    \/ MainConnectFail
    \/ \E w \in Workers : StartFail(w)

SpecFault == Init /\ [][NextFault]_vars

\* every runnable thread is eventually scheduled and time passes; the worker
\* processes are not obliged to print
Threads ==
    \/ MainConfigure
    \/ MainSpawn
    \/ MainStartShutdown
    \/ ShutdownReset
    \/ ShutdownSettled
    \/ ShutdownPoll
    \/ ShutdownSecondCheck
    \/ ShutdownCommit
    \/ ShutdownPowerOff
    \/ checkServerState
    \/ \E w \in Workers : Start(w) \/ StopGrace(w) \/ StopPoll(w) \/ StopFinish(w)
                             \/ OutputBegin(w) \/ OutputEnd(w) \/ ProcessExit(w)

SpecLive == Init /\ [][Next]_vars /\ WF_vars(Threads) /\ WF_vars(Tick)

\* the same scheduling in the runs in which a fault may happen; no fault is
\* obliged to happen
SpecFaultLive == Init /\ [][NextFault]_vars /\ WF_vars(Threads) /\ WF_vars(Tick)

\* the state after start-up: every worker is launched and its output loop
\* waits for the first line
InitTracker ==
    /\ AuxInit
    /\ now = server_count + 1
    /\ server_data = [shutdown |-> FALSE, player_active |-> [w \in Workers |-> FALSE]]
    /\ stored = server_data
    /\ server_used = FALSE
    /\ local_server_used = "unset"
    /\ g_cfg = server_count - 1
    /\ m_pc = "done" /\ m_i = server_count /\ m_due = server_count
    /\ c_pc = "settle" /\ c_due = server_count + SettleDelay
    /\ first_thread_active = FALSE
    /\ timers = {}
    /\ finished = {}
    /\ proc = [w \in Workers |-> "running"]
    /\ sock = [w \in Workers |-> "open"]
    /\ relay = [w \in Workers |-> << NameFrame >>]
    /\ st_pc = [w \in Workers |-> "done"]
    /\ sp_pc = [w \in Workers |-> "grace"]
    /\ sp_due = [w \in Workers |-> w + SpawnDelay + StartGrace]
    /\ o_pc = [w \in Workers |-> "loop"]
    /\ o_due = [w \in Workers |-> w + SpawnDelay + OutputDelay]
    /\ player_count = [w \in Workers |-> 0]
    /\ log = [w \in Workers |-> << >>]
    /\ stop_sent = [w \in Workers |-> 0]
    /\ lines_left = MaxTrackLines
    /\ flag_rises = 0
    /\ powered_off = FALSE

\* the output loops alone, fed with every sequence of lines
NextTracker == \E w \in Workers, line \in Lines : OutputLine(w, line)

SpecTracker == InitTracker /\ [][NextTracker]_vars

\* ------------------------------------------------ the writes to server.yml
\* yaml.dump writes into the buffered file object fp; the text reaches
\* server.yml when the with-block is left and fp is closed.  The threads are
\* followed here in these two steps, from the instant at which the shutdown
\* thread is about to set the flag while every output loop is reading.

InitStore ==
    /\ AuxInit
    /\ now = server_count + SettleDelay + PollInterval
    /\ server_data = [shutdown |-> FALSE, player_active |-> [w \in Workers |-> FALSE]]
    /\ stored = server_data
    /\ server_used = FALSE
    /\ local_server_used = "unset"
    /\ g_cfg = server_count - 1
    /\ m_pc = "done" /\ m_i = server_count /\ m_due = server_count
    /\ c_pc = "commit" /\ c_due = server_count + SettleDelay + PollInterval
    /\ first_thread_active = FALSE
    /\ timers = {[kind |-> "first", due |-> now + FirstTimerDelay],
                 [kind |-> "second", due |-> now + SecondTimerDelay]}
    /\ finished = {}
    /\ proc = [w \in Workers |-> "running"]
    /\ sock = [w \in Workers |-> "open"]
    /\ relay = [w \in Workers |-> << NameFrame >>]
    /\ st_pc = [w \in Workers |-> "done"]
    /\ sp_pc = [w \in Workers |-> "poll"]
    /\ sp_due = [w \in Workers |-> w + SpawnDelay + StartGrace + StopPollInterval]
    /\ o_pc = [w \in Workers |-> "loop"]
    /\ o_due = [w \in Workers |-> w + SpawnDelay + OutputDelay]
    /\ player_count = [w \in Workers |-> 0]
    /\ log = [w \in Workers |-> << >>]
    /\ stop_sent = [w \in Workers |-> 0]
    /\ lines_left = MaxStoreLines
    /\ flag_rises = 0
    /\ powered_off = FALSE

\* lines 102-120 (102-124): a line is relayed and counted, player_active is
\* assigned, server.yml is opened and the document is dumped into fp
StoreLine(w, line) ==
    /\ o_pc[w] = "loop"
    /\ proc[w] \in {"running", "stopping"}
    /\ sock[w] = "open"
    /\ o_buf[w] = {}
    /\ lines_left > 0
    /\ lines_left' = lines_left - 1
    /\ log' = [log EXCEPT ![w] = Append(@, line)]
    /\ player_count' = [player_count EXCEPT ![w] = CountAfter(@, line)]
    /\ server_data' = [server_data EXCEPT !.player_active[w] = Truthy(player_count'[w])]
    /\ o_buf' = [o_buf EXCEPT ![w] = {Dump(server_data')}]
    /\ relay' = [relay EXCEPT ![w] = Append(@, LineFrame(line))]
    /\ UNCHANGED swallowed
    /\ UNCHANGED << now, mainv, coordv, timerv, stored, flag_rises, procv, sock, st_pc,
                    stopv, o_pc, o_due, powered_off, c_buf, proxyv, wakev, collv >>

\* lines 119-120 (123-124): the with-block is left, fp is flushed and closed
StoreLineClose(w) ==
    /\ o_buf[w] # {}
    /\ \E doc \in o_buf[w] : stored' = Overwrite(stored, doc)
    /\ o_buf' = [o_buf EXCEPT ![w] = {}]
    /\ UNCHANGED << now, mainv, coordv, timerv, server_data, flag_rises, procv, sock,
                    st_pc, stopv, outv, powered_off, c_buf, proxyv, wakev, collv, relayv >>

\* lines 194-197: the flag is set, server.yml is opened, the document is dumped
StoreFlag ==
    /\ c_pc = "commit"
    /\ c_buf = {}
    /\ server_data' = [server_data EXCEPT !.shutdown = TRUE]
    /\ flag_rises' = flag_rises + Rise(server_data.shutdown, server_data'.shutdown)
    /\ c_buf' = {Dump(server_data')}
    /\ UNCHANGED << now, mainv, coordv, timerv, stored, procv, sock, st_pc, stopv, outv,
                    powered_off, o_buf, proxyv, wakev, collv, relayv >>

\* lines 196-200: the with-block is left, then time.sleep(300)
StoreFlagClose ==
    /\ c_pc = "commit"
    /\ c_buf # {}
    /\ \E doc \in c_buf : stored' = Overwrite(stored, doc)
    /\ c_buf' = {}
    /\ c_pc' = "drain"
    /\ c_due' = now + DrainDelay
    /\ UNCHANGED << now, mainv, first_thread_active, timerv, server_data, flag_rises,
                    procv, sock, st_pc, stopv, outv, powered_off, o_buf, proxyv, wakev, collv, relayv >>

NextStore ==
    \/ \E w \in Workers, line \in Lines : StoreLine(w, line)
    \/ \E w \in Workers : StoreLineClose(w)
    \/ StoreFlag
    \/ StoreFlagClose

SpecStore == InitStore /\ [][NextStore]_vars

\* ------------------------------------------------- proxy: startHighPower
\* The proxy is a process of its own, with its own server_data, its own
\* output loops (proxy.py lines 96-140) and the thread startHighPower.

\* the variables of the threads of high-power.py
highv_main == << server_data, stored, server_used, local_server_used, mainv, coordv,
                 timers, finished, procv, sock, st_pc, stopv, o_pc, o_due, player_count,
                 log, flag_rises, powered_off >>

highv == << highv_main, storev, relayv, collv >>

WakeRunnable ==
    \/ now >= hp_due
    \/ \E w \in Workers : px_pc[w] = "sleep" /\ now >= OutputDelay

\* proxy.py lines 97-111: time.sleep(1), then the loop over stdout is entered
ProxyOutputBegin(w) ==
    /\ px_pc[w] = "sleep"
    /\ now >= OutputDelay
    /\ px_pc' = [px_pc EXCEPT ![w] = "loop"]
    /\ px_count' = [px_count EXCEPT ![w] = 0]
    /\ UNCHANGED << now, lines_left, highv, px_active, px_rises, wakev >>

\* proxy.py lines 112-136: one iteration of the loop of the proxy's worker w
ProxyLine(w, line) ==
    /\ ~WakeRunnable
    /\ px_pc[w] = "loop"
    /\ lines_left > 0
    /\ lines_left' = lines_left - 1
    /\ px_count' = [px_count EXCEPT ![w] = CountAfter(@, line)]
    /\ px_active' = [px_active EXCEPT ![w] = Truthy(px_count'[w])]
    /\ px_rises' = [px_rises EXCEPT ![w] = @ + Rise(px_active[w], px_active'[w])]
    /\ UNCHANGED << now, highv, px_pc, wakev >>

\* variant: no break after the packet, the next poll follows 16 s later
WakePoll_nobreak ==
    /\ hp_pc = "poll"
    /\ now >= hp_due
    /\ IF px_active[Designated]
       THEN /\ wakes' = wakes + 1
            /\ last_wake' = now
       ELSE UNCHANGED << wakes, last_wake >>
    /\ hp_due' = now + WakePollInterval
    /\ UNCHANGED << now, lines_left, highv, proxyv, hp_pc, cooldowns >>

\* variant: the packet is sent when any worker is active
WakePoll_any ==
    /\ hp_pc = "poll"
    /\ now >= hp_due
    /\ IF \E w \in Workers : px_active[w]
       THEN /\ wakes' = wakes + 1
            /\ last_wake' = now
            /\ hp_pc' = "cooldown"
            /\ hp_due' = now + CooldownDelay
       ELSE /\ hp_due' = now + WakePollInterval
            /\ UNCHANGED << wakes, last_wake, hp_pc >>
    /\ UNCHANGED << now, lines_left, highv, proxyv, cooldowns >>

\* proxy.py lines 154-165: the sleep of 16 s has ended, player_active of
\* server_1 is read; when it is set the packet is sent, the inner loop is
\* left and time.sleep(900) begins, else the next time.sleep(16) begins
WakePoll ==
    /\ hp_pc = "poll"
    /\ now >= hp_due
    /\ IF px_active[Designated]
       THEN /\ wakes' = wakes + 1
            /\ last_wake' = now
            /\ hp_pc' = "cooldown"
            /\ hp_due' = now + CooldownDelay
       ELSE /\ hp_due' = now + WakePollInterval
            /\ UNCHANGED << wakes, last_wake, hp_pc >>
    /\ UNCHANGED << now, lines_left, highv, proxyv, cooldowns >>

\* proxy.py lines 166, 153-156: time.sleep(900) has ended, the inner loop is
\* entered again and starts with time.sleep(16)
WakeCooldownEnd ==
    /\ hp_pc = "cooldown"
    /\ now >= hp_due
    /\ hp_pc' = "poll"
    /\ hp_due' = now + WakePollInterval
    /\ cooldowns' = cooldowns + 1
    /\ UNCHANGED << now, lines_left, highv, proxyv, wakes, last_wake >>

WakeDeadlines ==
    {hp_due} \cup {OutputDelay : w \in {v \in Workers : px_pc[v] = "sleep"}}

\* the proxy's clock: nothing can run, the earliest sleep ends
WakeTick ==
    /\ ~WakeRunnable
    /\ SetMin(WakeDeadlines) <= MaxWakeTime
    /\ now' = SetMin(WakeDeadlines)
    /\ UNCHANGED << lines_left, highv, proxyv, wakev >>

InitWake ==
    /\ InitProgram
    /\ ~server_data.shutdown
    /\ lines_left = MaxWakeLines

NextWake ==
    \/ \E w \in Workers : ProxyOutputBegin(w)
    \/ \E w \in Workers, line \in Lines : ProxyLine(w, line)
    \/ WakePoll
    \/ WakeCooldownEnd
    \/ WakeTick

SpecWake == InitWake /\ [][NextWake]_vars

\* ------------------------------------------ proxy: MyTCPHandler.handle
\* One relay connection: the worker's side sends (high-power.py lines 56-59,
\* 108, 92), handle() of the proxy receives.  The stream is a sequence of
\* tokens: a text, or "\n" for a newline.

RelayLines == {"other", ""}     \* a line with text, an empty line

\* the bytes of a frame
Bytes(frame) ==
    (IF frame.text = "" THEN << >> ELSE << frame.text >>)
        \o (IF frame.nl THEN << "\n" >> ELSE << >>)

RECURSIVE StripLeft(_)
StripLeft(seq) ==
    IF seq = << >> THEN << >>
    ELSE IF Head(seq) = "\n" THEN StripLeft(Tail(seq)) ELSE seq

RECURSIVE StripRight(_)
StripRight(seq) ==
    IF seq = << >> THEN << >>
    ELSE IF seq[Len(seq)] = "\n" THEN StripRight(SubSeq(seq, 1, Len(seq) - 1)) ELSE seq

\* bytes.strip(): leading and trailing whitespace is removed
Strip(seq) == StripRight(StripLeft(seq))

\* what one recv(1024) can return: a non-empty prefix of what has arrived,
\* or nothing once the peer has closed and everything was received
Chunks ==
    {SubSeq(wire, 1, k) : k \in 1 .. Len(wire)}
        \cup (IF wire = << >> /\ r_conn = "closed" THEN {<< >>} ELSE {})

\* high-power.py lines 56-59: connect, the display name is sent
RelayConnect ==
    /\ r_conn = "none"
    /\ r_conn' = "open"
    /\ wire' = wire \o Bytes(NameFrame)
    /\ UNCHANGED << now, lines_left, highv_main, relayv, storev, proxyv, wakev, h_pc,
                    h_name, h_file >>

\* high-power.py line 108: the frame of an output line is sent
RelaySend(line) ==
    /\ r_conn = "open"
    /\ lines_left > 0
    /\ lines_left' = lines_left - 1
    /\ wire' = wire \o Bytes(LineFrame(line))
    /\ UNCHANGED << now, highv_main, relayv, storev, proxyv, wakev, r_conn, h_pc, h_name,
                    h_file >>

\* high-power.py line 92: self.serversock.close()
RelayClose ==
    /\ r_conn = "open"
    /\ r_conn' = "closed"
    /\ UNCHANGED << now, lines_left, highv_main, relayv, storev, proxyv, wakev, wire, h_pc,
                    h_name, h_file >>

\* proxy.py lines 55-63: the first recv gives the name of the output file
HandleName ==
    /\ h_pc = "name"
    /\ \E chunk \in Chunks :
          /\ h_name' = Strip(chunk)
          /\ wire' = SubSeq(wire, Len(chunk) + 1, Len(wire))
    /\ h_pc' = "read"
    /\ UNCHANGED << now, lines_left, highv_main, relayv, storev, proxyv, wakev, r_conn,
                    h_file >>

\* proxy.py lines 65-74: one iteration of the loop: recv, strip, leave the
\* loop when nothing is left, else append the text to the output file
HandleRecv ==
    /\ h_pc = "read"
    /\ \E chunk \in Chunks :
          /\ wire' = SubSeq(wire, Len(chunk) + 1, Len(wire))
          /\ IF Strip(chunk) = << >>
             THEN /\ h_pc' = "done"
                  /\ UNCHANGED h_file
             ELSE /\ h_file' = Append(h_file, Strip(chunk) \o << "\n" >>)
                  /\ UNCHANGED h_pc
    /\ UNCHANGED << now, lines_left, highv_main, relayv, storev, proxyv, wakev, r_conn,
                    h_name >>

InitRelay ==
    /\ InitProgram
    /\ ~server_data.shutdown
    /\ lines_left = MaxRelayLines

NextRelay ==
    \/ RelayConnect
    \/ \E line \in RelayLines : RelaySend(line)
    \/ RelayClose
    \/ HandleName
    \/ HandleRecv

SpecRelay == InitRelay /\ [][NextRelay]_vars

TypeOK ==
    /\ now \in 0 .. MaxTime
    /\ server_used \in BOOLEAN
    /\ \A w \in Workers : player_count[w] \in (0 - MaxLines) .. MaxLines

\* ------------------------------------------------------------- claims

AnyActive == \E w \in Workers : server_data.player_active[w]

\* a step in which a timer thread runs checkServerState to completion
CheckStep == timers' \subseteq timers /\ timers' # timers

\* C1: every fleet usage check leaves in server_used, where the shutdown loop
\* reads it, the verdict 'used' exactly when some worker has player_active
\* true at the time of the check, and 'idle' otherwise.
C1_VerdictIsFleetOr == [][CheckStep => (server_used' = AnyActive)]_vars

\* C2: while some worker is active, the coordinator does not set
\* server_data['shutdown'] to true.
C2_NoShutdownWhileActive ==
    [][AnyActive => ~(c_pc = "commit" /\ server_data'.shutdown)]_vars

\* C3: once the coordinator has set the flag, the first check and the
\* second check, 900 seconds later, have both run to completion.
C3_FlagAfterTwoChecks ==
    c_pc \in {"drain", "done"} => finished = {"first", "second"}

\* C4: with an active worker the coordinator leaves CONFIRM_1 (the polling
\* loop) and CONFIRM_2 (the second check) only backwards: it neither
\* advances from the polling loop to the second check nor from the second
\* check to SHUTTING_DOWN.
C4_ActivityResetsEpisode ==
    [][AnyActive => /\ ~(c_pc = "poll" /\ c_pc' = "confirm2")
                    /\ ~(c_pc = "confirm2" /\ c_pc' = "commit")]_vars

\* a step in which the output loop of worker w handles one line
LineStep(w) == Len(log'[w]) = Len(log[w]) + 1

\* C5 as stated: after each line the stored player_active of the worker is
\* true exactly when its running counter is greater than 0.
C5_ActiveIffPositive ==
    [][\A w \in Workers : LineStep(w) =>
          /\ server_data'.player_active[w] = (player_count'[w] > 0)
          /\ stored'.player_active[w] = (player_count'[w] > 0)]_vars

\* C5 amended: after each line, whichever markers it contains, player_active
\* of the worker, in memory and in server.yml, is true exactly when its
\* running counter is different from 0.
C5_ActiveIffNonZero ==
    [][\A w \in Workers : LineStep(w) =>
          /\ server_data'.player_active[w] = (player_count'[w] # 0)
          /\ stored'.player_active[w] = (player_count'[w] # 0)]_vars

C5_Witness ==
    \E w \in Workers :
        /\ log[w] = << "leave" >>
        /\ player_count[w] = 0 - 1
        /\ server_data.player_active[w]
        /\ stored.player_active[w]

RECURSIVE NumJoin(_)
NumJoin(seq) ==
    IF seq = << >> THEN 0 ELSE (IF HasJoin(Head(seq)) THEN 1 ELSE 0) + NumJoin(Tail(seq))

RECURSIVE NumLeave(_)
NumLeave(seq) ==
    IF seq = << >> THEN 0 ELSE (IF HasLeave(Head(seq)) THEN 1 ELSE 0) + NumLeave(Tail(seq))

\* C6: the counter of a worker is the number of lines read that contain the
\* join marker minus the number that contain the leave marker, without
\* clamping: join, leave gives 0 and inactive; join, join, leave gives 1 and
\* active; a leave at 0 gives -1 and a following join gives 0.
C6_CounterIsJoinsMinusLeaves ==
    \A w \in Workers :
        /\ player_count[w] = NumJoin(log[w]) - NumLeave(log[w])
        /\ log[w] = << "join", "leave" >> =>
              player_count[w] = 0 /\ ~server_data.player_active[w]
        /\ log[w] = << "join", "join", "leave" >> =>
              player_count[w] = 1 /\ server_data.player_active[w]
        /\ log[w] = << "leave" >> => player_count[w] = 0 - 1
        /\ log[w] = << "leave", "join" >> => player_count[w] = 0

C6_Witness ==
    \E w \in Workers :
        /\ log[w] = << "join", "join", "leave" >>
        /\ player_count[w] = 1
        /\ server_data.player_active[w]

\* C7: in one run the flag is false from the reset until the coordinator
\* sets it, it changes from false to true at most once, and no worker
\* process is sent more than one stop directive.
C7_SetOnceStopOnce ==
    /\ flag_rises <= 1
    /\ c_pc \in {"settle", "poll", "confirm2", "commit"} => ~server_data.shutdown
    /\ \A w \in Workers : stop_sent[w] <= 1

C7_Witness ==
    /\ flag_rises = 1
    /\ \A w \in Workers : stop_sent[w] = 1 /\ sp_pc[w] = "exited"

NoJoinSeen == \A w \in Workers : NumJoin(log[w]) = 0

AllStopped == \A w \in Workers : stop_sent[w] >= 1

\* C8: if no worker ever prints a join line then, the threads being scheduled
\* fairly, eventually the flag is set, every termination watch has sent its
\* stop directive and the host power-off is issued.
C8_IdleFleetShutsDown ==
    []NoJoinSeen => <>(server_data.shutdown /\ flag_rises = 1 /\ AllStopped /\ powered_off)

C8_Witness ==
    NoJoinSeen /\ server_data.shutdown /\ flag_rises = 1 /\ AllStopped /\ powered_off

\* C9: when the host power-off is issued the flag is set, the drain interval
\* that began when it was set is over, and every worker has been sent its
\* stop directive.
C9_PowerOffAfterStops ==
    powered_off => /\ server_data.shutdown
                   /\ now >= c_due
                   /\ AllStopped

C9_Witness ==
    powered_off /\ c_pc = "done" /\ now = c_due /\ AllStopped

\* C10: a worker is sent the stop directive only after the coordinator of
\* this run has set the flag.
C10_StopOnlyAfterCoordinatorSet ==
    \A w \in Workers : stop_sent[w] > 0 => c_pc \in {"drain", "done"}

\* ------------------------------------------------------------------ C11
\* C11: for every interleaving of the whole-document rewrites of server.yml
\* by the output loops and the shutdown thread, once every write has
\* completed the stored document holds each worker's latest player_active and
\* the latest shutdown flag: no write is lost or reverted by another writer.
NoWriteOpen == c_buf = {} /\ \A w \in Workers : o_buf[w] = {}

C11_StoredHoldsLatest ==
    NoWriteOpen =>
        /\ stored.shutdown = server_data.shutdown
        /\ \A w \in Workers : stored.player_active[w] = server_data.player_active[w]

\* ------------------------------------------------------------------ C12
\* C12: after the wake monitor has sent a packet it sends no second packet
\* during the cooldown of 900 s, even when player_active of the designated
\* worker is true during the whole cooldown.
C12_NoWakeInCooldown ==
    [][(wakes' > wakes /\ last_wake >= 0) => (now - last_wake >= CooldownDelay)]_vars

\* the designated worker has been active since before the first packet, the
\* cooldown has passed, and a second packet was sent only after it
C12_Witness ==
    /\ wakes = 2
    /\ cooldowns = 1
    /\ px_rises[Designated] = 1
    /\ px_active[Designated]

FailedWorker(w) == m_pc = "crashed" /\ w = m_i

C14_OthersStillStarted ==
    <>(/\ c_pc # "unborn"
       /\ \A w \in Workers : FailedWorker(w) \/ st_pc[w] # "unborn")

\* ------------------------------------------------------------------ C15
\* C15: whatever the interleaving of the start-up loop with the start threads,
\* worker w is launched with its own memory limit, jar and working directory:
\* when start() of worker w runs Popen, the module-level max_ram, jar_name and
\* server_path hold the values of server_w.
StartStep(w) == st_pc[w] = "ready" /\ st_pc'[w] = "done"

C15_LaunchedWithOwnConfig == [][\A w \in Workers : StartStep(w) => g_cfg = w]_vars

\* ------------------------------------------------------------------ C16
\* C16: persisting a worker's activity state is idempotent: when the output
\* loop of worker w stores the value of player_active that it stored the time
\* before, and no other thread has written in between (here: w is the only
\* writer so far), server.yml is identical before and after the second store.
SameValueStore(w) ==
    /\ LineStep(w)
    /\ Len(log[w]) > 0
    /\ \A v \in Workers \ {w} : log[v] = << >>
    /\ server_data'.player_active[w] = server_data.player_active[w]

C16_StoreIdempotent == [][\A w \in Workers : SameValueStore(w) => stored' = stored]_vars

\* a worker has stored True for a join line and True again for the next line,
\* and no other worker has written
C16_Witness ==
    \E w \in Workers :
        /\ log[w] = << "join", "other" >>
        /\ \A v \in Workers \ {w} : log[v] = << >>
        /\ stored.player_active[w]
        /\ stored = server_data

\* ------------------------------------------------------------------ C17
\* C17: the relay stream of a worker is its display name as first frame,
\* followed by one newline-terminated frame per line the process has printed,
\* in the order of the output, no line dropped, duplicated or reordered; and
\* a line is counted and its state stored only with its frame sent first.
FramesOf(seq) == [i \in 1 .. Len(seq) |-> LineFrame(seq[i])]

RelayIsOutput(w) ==
    /\ relay[w] = << NameFrame >> \o FramesOf(log[w])
    /\ swallowed[w] = 0

CountedOrStored(w) ==
    \/ player_count'[w] # player_count[w]
    \/ stored' # stored
    \/ server_data' # server_data

C17_RelayIsOutputInOrder ==
    /\ [](\A w \in Workers : sock[w] # "none" => RelayIsOutput(w))
    /\ [][\A w \in Workers :
            (LineStep(w) /\ CountedOrStored(w))
                => relay'[w] = Append(relay[w], LineFrame(log'[w][Len(log'[w])]))]_vars

\* ------------------------------------------------------------------ C18
\* C18: the handler of the collector stops reading a relay connection only
\* when the worker has closed it: as long as the connection is open, every
\* relayed line, an empty output line included, leaves the handler reading.
C18_StopsOnlyOnClose == h_pc = "done" => r_conn = "closed"

\* ------------------------------------------------------------------ C19
\* C19: once the termination watch of a worker has seen the flag and reset
\* the worker's player_active to false, player_active of that worker is false
\* in memory and in server.yml for the rest of the run; the output loop does
\* not set it again while the process is stopping.
WatchHasReset(w) == sp_pc[w] \in {"communicate", "exited"}

C19_ResetStaysFalse ==
    \A w \in Workers :
        WatchHasReset(w) =>
            /\ ~server_data.player_active[w]
            /\ ~stored.player_active[w]

\* ------------------------------------------------------------------ C20
\* C20: the output loop and the termination watch of a worker use the process
\* handle only after start() has assigned it: no step of outputHandler
\* (self.server.stdout) or of stop (self.server.communicate) reads
\* self.server while it is the placeholder 0.
ReadsHandle(w) ==
    \/ o_pc[w] = "sleep" /\ o_pc'[w] # "sleep"
    \/ sp_pc[w] = "poll" /\ sp_pc'[w] # "poll"

C20_HandleReadAfterStart == [][\A w \in Workers : ReadsHandle(w) => proc[w] # "none"]_vars

====
